---- MODULE Spec2Model ----
(***************************************************************************)
(* Variant traversal of a product page (Yaroshll/Mecys_products_details).  *)
(*                                                                         *)
(* The page is an abstract document: a primary option group ("Color"), a   *)
(* secondary option group ("Size") whose membership depends on the         *)
(* selected primary value, and the selection state.  The page renders the  *)
(* size group of a colour when that colour becomes selected, so the state  *)
(* holds the size group as it is shown now.  Labels are numbers: 0 is the  *)
(* empty string, -1 is a column the row object does not carry.             *)
(*                                                                         *)
(* Revisions of extractMacyProductData are modelled side by side, selected *)
(* by impl:                                                                *)
(*   "collect" src/helpers/extractors.js:437-768 (handleCollectVariants)   *)
(*   "radio"   src/helpers/extractors.js:855-1240 (radio label queries)    *)
(*   "retry"   src/unnamed/part_005:715-976 (retry loop, per-item catch)   *)
(*   "main"    src/index.js:14-131 (batch loop over the URL list)          *)
(* calculatePrices is modelled in two revisions, selected by priceRev.     *)
(***************************************************************************)
EXTENDS Integers, Sequences, FiniteSets, TLC

MaxColors == 2
MaxSizes == 2
MaxFaults == 1

VARIABLES
  impl,          \* which revision of extractMacyProductData runs
  flaky,         \* page: clicks may go through without moving the selection,
                 \*       or need the el.click() fallback
  nColors,       \* page: number of colour swatches, labelled 1..nColors
  disColors,     \* page: labels of the disabled colour swatches
  sizeDim,       \* page: the product has a size group
  dependent,     \* page: the size group depends on the selected colour
  shown,         \* page: the size group as rendered now, per size label:
                 \*       "absent", "live" or "disabled"
  containerVisible, \* page: some element matches SELECTORS.VARIANTS.CONTAINER
  hasTitle,      \* page: brand or product name is present
  selColor,      \* page: label of the selected colour, 0 if none
  selSize,       \* page: label of the selected size, 0 if none
  pc,            \* position of extractMacyProductData
  i, j,          \* loop indices (1-based)
  masterKey,     \* name of the primary group, "" if none
  slaveKey,      \* name of the secondary group, "" if none
  nMaster,       \* length of the list the outer loop runs over
  slaveItems,    \* list the inner loop runs over
  curMaster,     \* currentMasterLabel / currentOption1Value
  mainImage,     \* image captured for the current primary value
  data,          \* allVariantsData
  rows,          \* allShopifyRows
  visits,        \* history: items the traversal selected or found selected
  seen,          \* history: per colour that was selected (0: no colour group),
                 \*          the size group the page showed under it, in short
  sawDisabledSize, \* history: some size group shown held a disabled item
  retryCount,    \* attempts used up by the retry loop of src/unnamed/part_005
  discoveries,   \* history: number of discovery queries made
  faults,        \* history: clicks that did not go the normal way
  catalogue,     \* batch: the kind of pages the URL list points to
  urls,          \* batch: length of the URL list of src/index.js
  urlIdx,        \* batch: 1-based index of the URL being processed
  successCount,  \* batch: successCount of src/index.js
  attempted,     \* batch history: indices of the URLs whose processing started
  priceRev,      \* prices: which revision of calculatePrices runs
  priceRate,     \* prices: VARIANT_PRICE_RATE in tenths
  priceText,     \* prices: the text handed to calculatePrices
  prices,        \* prices: what calculatePrices returned
  navRetries,    \* navigation: the retries argument of gotoMacyWithRetries
  navLog,        \* navigation: how each page.goto attempt ended, in order
  navWaits,      \* navigation: the waits between attempts, in milliseconds
  call           \* a helper called on its own: its name, arguments and result

pageVars == <<flaky, nColors, disColors, sizeDim, dependent, shown, containerVisible, hasTitle,
              selColor, selSize, seen, sawDisabledSize>>
batchVars == <<catalogue, urls, urlIdx, successCount, attempted>>
priceVars == <<priceRev, priceRate, priceText, prices>>
navVars == <<navRetries, navLog, navWaits>>
engineVars == <<impl, priceVars, navVars, call, batchVars, retryCount, pc, i, j, masterKey, slaveKey, nMaster,
                slaveItems, curMaster,
                mainImage, data, rows, visits, discoveries, faults>>
vars == <<pageVars, engineVars>>

Blank == 0
Undefined == 0 - 1
IsBlank(v) == v = Blank \/ v = Undefined

(***************************************************************************)
(* Sequences                                                               *)
(***************************************************************************)
\* the elements of S in increasing order
SortedSeq(S) ==
  [k \in 1..Cardinality(S) |-> CHOOSE s \in S : Cardinality({t \in S : t <= s}) = k]

(***************************************************************************)
(* The page                                                                *)
(***************************************************************************)
SizeStates == {"absent", "live", "disabled"}
NoSizes == [s \in 1..MaxSizes |-> "absent"]
\* the size groups a page may render
ViewsOf(sd) == IF sd THEN [1..MaxSizes -> SizeStates] ELSE {NoSizes}
Views == ViewsOf(sizeDim)

HasColors == nColors > 0
HasSizeDimension == sizeDim
Present(view) == {s \in 1..MaxSizes : view[s] # "absent"}
Live(view) == {s \in 1..MaxSizes : view[s] = "live"}
Disabled(view) == {s \in 1..MaxSizes : view[s] = "disabled"}
\* what the history keeps of a size group
Seen(view) == [live |-> Live(view), empty |-> Present(view) = {}]

\* all swatches of a group in document order, with the attributes the code reads
ColorItems(sc) ==
  [k \in 1..nColors |->
     [label |-> k, isSelected |-> (sc = k), isDisabled |-> (k \in disColors)]]
SizeItems(view, ss) ==
  SelectSeq([s \in 1..MaxSizes |->
               [label |-> s, isSelected |-> (ss = s),
                isDisabled |-> (view[s] = "disabled")]],
            LAMBDA item : view[item.label] # "absent")

\* text of the "selected value" display of a group; Blank when nothing is selected
SelectedDisplay(g, sc, ss) == IF g = "Color" THEN sc ELSE ss

(***************************************************************************)
(* Clicks.  A click on an element ends in one of four ways:                *)
(*   "ok"       the direct click went through and the selection changed    *)
(*   "js"       the direct click failed, el.click() in the page went       *)
(*              through and the selection changed                          *)
(*   "noeffect" the click went through, the page kept its selection        *)
(*   "throw"    the direct click and el.click() both failed                *)
(* A disabled swatch never takes the selection.                            *)
(***************************************************************************)
Outcomes == {"ok", "js", "noeffect", "throw"}
IsFault(o) == o # "ok"
CanHappen(o) == o \in {"ok", "throw"} \/ (flaky /\ faults < MaxFaults)

\* safeClick: direct click, then el.click() in the page, then rethrow
safeClick(o) == IF o = "throw" THEN "throw" ELSE "clicked"
\* element.click({timeout}) without fallback
plainClick(o) == IF o \in {"throw", "js"} THEN "throw" ELSE "clicked"

Selects(o, item) == o \in {"ok", "js"} /\ ~item.isDisabled
\* the click makes the page select another colour
Recolors(g, item, o) == g = "Color" /\ Selects(o, item) /\ item.label # selColor

\* the size groups the page may show after the click: that of the new colour,
\* else the one it shows
ViewsAfter(g, item, clicked, o) ==
  IF clicked /\ Recolors(g, item, o) /\ dependent THEN Views ELSE {shown}
ColorNext(g, item, o) ==
  IF g = "Color" /\ Selects(o, item) THEN item.label ELSE selColor
\* a selected size stays selected under a new colour that offers it
SizeNext(g, item, o, view) ==
  IF ~Selects(o, item) THEN selSize
  ELSE IF g = "Size" THEN item.label
  ELSE IF selSize \in Live(view) THEN selSize ELSE 0

\* the page after extractMacyProductData reached an item and, if clicked, clicked it
PageAfter(g, item, clicked, o, view) ==
  /\ selColor' = IF clicked THEN ColorNext(g, item, o) ELSE selColor
  /\ selSize' = IF clicked THEN SizeNext(g, item, o, view) ELSE selSize
  /\ shown' = view
  /\ seen' = IF clicked /\ Recolors(g, item, o)
               THEN (item.label :> Seen(view)) @@ seen
               ELSE seen
  /\ sawDisabledSize' = (sawDisabledSize \/ Disabled(view) # {})
  /\ UNCHANGED <<flaky, nColors, disColors, sizeDim, dependent, containerVisible,
                 hasTitle>>

\* Element handles.  A handle is as old as the number of clicks issued before
\* the query that returned it.
Clicks == Cardinality({k \in 1..Len(visits) : visits[k].clicked})

\* the number of clicks issued up to the end of the last visit of group g
ClicksAfterLast(g) ==
  LET ks == {k \in 1..Len(visits) : visits[k].group = g}
  IN  IF ks = {} THEN 0
      ELSE Cardinality({k \in 1..Len(visits) :
                          visits[k].clicked /\ \E m \in ks : k <= m})

\* one visit of an item through a handle obtained after got clicks: the handle
\* is evaluated and possibly clicked after at clicks, and last read after read
\* clicks (readsAfter: the code reads the handle again once the click is done).
\* selected: the page shows the item selected when the visit begins; paused:
\* a waitForTimeout runs between the visit's branch and the extraction; wait:
\* how the wait for another main image ended, "none" without such a wait.
Visit(g, item, clicked, o, got, readsAfter, paused, wait) ==
  [group |-> g, label |-> item.label, clicked |-> clicked,
   how |-> IF clicked THEN o ELSE "none", disabled |-> item.isDisabled,
   selected |-> (IF g = "Color" THEN selColor ELSE selSize) = item.label,
   paused |-> paused, wait |-> wait,
   got |-> got, at |-> Clicks,
   read |-> IF clicked /\ readsAfter /\ o # "throw" THEN Clicks + 1 ELSE Clicks]

(***************************************************************************)
(* Variant Group Discovery, src/helpers/extractors.js:308-363              *)
(***************************************************************************)
NotDisabled(item) == ~item.isDisabled

handleCollectVariants(sc, ss, view) ==
  (IF HasColors
     THEN <<[name |-> "Color", items |-> SelectSeq(ColorItems(sc), NotDisabled)]>>
     ELSE <<>>)
  \o
  (IF HasSizeDimension
     THEN <<[name |-> "Size", items |-> SelectSeq(SizeItems(view, ss), NotDisabled)]>>
     ELSE <<>>)

\* anchorsPerVariant[key]?.items ?? []
ItemsOfKey(groups, key) ==
  IF \E k \in 1..Len(groups) : groups[k].name = key
    THEN groups[CHOOSE k \in 1..Len(groups) : groups[k].name = key].items
    ELSE <<>>

\* variantKeysOrdered[n]
KeyAt(groups, n) == IF n <= Len(groups) THEN groups[n].name ELSE ""

(***************************************************************************)
(* Initial states: a page as the browser shows it after navigation, and    *)
(* extractMacyProductData about to run.  The first colour is preselected,  *)
(* no size is.                                                             *)
(***************************************************************************)
\* the pages: what the document holds, before anything is selected
Pages ==
  {p \in [nColors : 0..MaxColors, disColors : SUBSET (1..MaxColors),
          sizeDim : BOOLEAN, dependent : BOOLEAN,
          shown : [1..MaxSizes -> SizeStates],
          containerVisible : BOOLEAN, hasTitle : BOOLEAN] :
     /\ p.disColors \subseteq 1..p.nColors
     /\ p.shown \in ViewsOf(p.sizeDim)
     /\ p.dependent => (p.nColors > 1 /\ p.sizeDim)
     /\ (p.nColors > 0 \/ p.sizeDim) => p.containerVisible}

FirstColor(p) == IF p.nColors > 0 THEN 1 ELSE 0

\* the browser shows page p as loaded
PageIs(p) ==
  /\ nColors = p.nColors
  /\ disColors = p.disColors
  /\ sizeDim = p.sizeDim
  /\ dependent = p.dependent
  /\ shown = p.shown
  /\ containerVisible = p.containerVisible
  /\ hasTitle = p.hasTitle
  /\ selColor = FirstColor(p)
  /\ selSize = 0
  /\ seen = (FirstColor(p) :> Seen(p.shown))
  /\ sawDisabledSize = (Disabled(p.shown) # {})

PageInit == \E p \in Pages : PageIs(p)

\* no helper is called on its own
NoCall == [fn |-> "none"]

NotPriced == [costPerItem |-> <<>>, variantPrice |-> <<>>, compareAtPrice |-> <<>>]

\* no price is being derived, gotoMacyWithRetries is not running
NoPricing ==
  /\ priceRev = "none"
  /\ priceRate = 0
  /\ priceText = <<>>
  /\ prices = NotPriced
  /\ navRetries = 0
  /\ navLog = <<>>
  /\ navWaits = <<>>
  /\ call = NoCall

\* src/index.js is not running
NoBatch ==
  /\ catalogue = "any"
  /\ urls = 1
  /\ urlIdx = 1
  /\ successCount = 0
  /\ attempted = <<>>

EngineInit ==
  /\ retryCount = 0
  /\ i = 1
  /\ j = 1
  /\ masterKey = ""
  /\ slaveKey = ""
  /\ nMaster = 0
  /\ slaveItems = <<>>
  /\ curMaster = Blank
  /\ mainImage = Blank
  /\ data = <<>>
  /\ rows = <<>>
  /\ visits = <<>>
  /\ discoveries = 0
  /\ faults = 0

Impls == {"collect", "radio"}

\* pages on which a click either selects the clicked item or fails
Init ==
  /\ impl \in Impls
  /\ flaky = FALSE
  /\ PageInit
  /\ EngineInit
  /\ pc = "start"
  /\ NoBatch
  /\ NoPricing

\* extractMainImage: the main image shows the selected colour
extractMainImage(sc) == sc

(***************************************************************************)
(* waitForImageChangeCheck, src/helpers/extractors.js:237-269               *)
(***************************************************************************)
\* lines 252-263: page.waitForFunction with a timeout of 10000 ms, resolved
\* once the main image is not the one read before the click
waitForFunction(oldMainImage, mainImageNow) ==
  IF mainImageNow # oldMainImage THEN "resolved" ELSE "timeout"

\* how the wait of a click on item went
ImageChange(g, item, o) ==
  waitForFunction(extractMainImage(selColor), extractMainImage(ColorNext(g, item, o)))

\* as waitForImageChangeCheck, the TimeoutError of the wait left uncaught
waitForImageChangeCheck_Uncaught(g, item, o) ==
  IF safeClick(o) = "throw" THEN "throw"
  ELSE IF ImageChange(g, item, o) = "timeout" THEN "throw"
  ELSE "returned"
\* the click is outside the try, the wait inside it (lines 264-266), then
\* waitForTimeout(2000)
waitForImageChangeCheck(g, item, o) ==
  IF safeClick(o) = "throw" THEN "throw"
  ELSE IF ImageChange(g, item, o) = "timeout" THEN "returned"
  ELSE "returned"

\* lines 548-556 and 940: a colour is clicked through waitForImageChangeCheck,
\* an item of another group through safeClick
SelectVariant(g, item, o) ==
  IF g = "Color" THEN waitForImageChangeCheck(g, item, o)
  ELSE IF safeClick(o) = "throw" THEN "throw" ELSE "returned"

\* lines 16-28: what safeClick does to the element, in order; the click in the
\* page is evaluated only in the catch of the direct click
safeClickSteps(o) ==
  IF o \in {"js", "throw"} THEN <<"click", "evaluate">> ELSE <<"click">>

\* lines 240-249 and 548-556: what a click of the collect revision does to
\* the element, in order; only waitForImageChangeCheck scrolls it into view
ClickSteps(g, o) ==
  (IF g = "Color" THEN <<"scrollIntoView">> ELSE <<>>) \o safeClickSteps(o)

\* what a visit records of the wait
ImageWait(g, item, clicked, o) ==
  IF clicked /\ g = "Color" /\ safeClick(o) # "throw"
    THEN ImageChange(g, item, o) ELSE "none"

\* extractTitle: "" when neither brand nor product name is found
extractTitle == IF hasTitle THEN 1 ELSE Blank

\* v || ""
OrBlank(v) == IF v = Undefined THEN Blank ELSE v

\* capitalizeFirst(key), "" for a missing key
capitalizeFirst(key) == key

\* as LoopPc, the loop's exit awaiting a page operation that never returns
LoopPc_Stalled(next, n, body) == IF next > n THEN "stalled" ELSE body
\* the condition of the master loop: its body again, or the code after it
LoopPc(next, n, body) == IF next > n THEN "assemble" ELSE body

\* as SkipMissing, the missing element being fatal
SkipMissing_Fatal(next, n) == "thrown"
\* extractors.js:540-543 and 929-932: no element at the index after the
\* re-fetch, a warning and `continue`
SkipMissing(next, n) == LoopPc(next, n, "master")

(***************************************************************************)
(* extractMacyProductData, src/helpers/extractors.js:437-768               *)
(***************************************************************************)
\* as HasSlaveItems, without the length test
HasSlaveItems_KeyOnly(key, slave) == key # ""

\* line 571: slaveKey && currentAnchorsPerVariant[slaveKey]?.items?.length > 0
HasSlaveItems(key, slave) == key # "" /\ Len(slave) > 0

\* as Snapshot, with the secondary label left out
Snapshot_NoSlave(m, s, sc, ss, img) ==
  [master |-> m, slave |-> Undefined, sc |-> sc, ss |-> ss, image |-> img]

\* lines 519-527, 619-627 and 637-645: an entry of allVariantsData
Snapshot(m, s, sc, ss, img) ==
  [master |-> m, slave |-> s, sc |-> sc, ss |-> ss, image |-> img]

\* lines 437-506: navigation, page invariants, initial discovery, group keys
CollectStart ==
  /\ impl = "collect"
  /\ pc = "start"
  /\ IF ~containerVisible
       THEN /\ pc' = "thrown"
            /\ discoveries' = discoveries + 1
            /\ UNCHANGED <<masterKey, slaveKey, nMaster>>
       ELSE LET groups == handleCollectVariants(selColor, selSize, shown)
                mk == KeyAt(groups, 1)
                n == Len(ItemsOfKey(groups, mk))
            IN  /\ masterKey' = mk
                /\ slaveKey' = KeyAt(groups, 2)
                /\ nMaster' = n
                /\ pc' = IF mk = "" THEN "novariants" ELSE LoopPc(1, n, "master")
                /\ discoveries' = discoveries + 2
  /\ UNCHANGED <<pageVars, impl, priceVars, navVars, call, batchVars, retryCount, i, j, slaveItems, curMaster, mainImage, data, rows,
                 visits, faults>>

\* lines 508-528: no variant group
CollectNoVariants ==
  /\ impl = "collect"
  /\ pc = "novariants"
  /\ data' = Append(data, Snapshot(Undefined, Undefined, selColor, selSize,
                                   extractMainImage(selColor)))
  /\ pc' = "assemble"
  /\ UNCHANGED <<pageVars, impl, priceVars, navVars, call, batchVars, retryCount, i, j, masterKey, slaveKey, nMaster, slaveItems,
                 curMaster, mainImage, rows, visits, discoveries, faults>>

\* lines 534-568 and 629-646: one iteration of the master loop, up to the slave loop
CollectMaster ==
  /\ impl = "collect"
  /\ pc = "master"
  /\ \E cur \in {ItemsOfKey(handleCollectVariants(selColor, selSize, shown), masterKey)} :
       IF i > Len(cur)
         THEN \* lines 540-543: no element at index i, skip
              /\ i' = i + 1
              /\ pc' = SkipMissing(i + 1, nMaster)
              /\ discoveries' = discoveries + 1
              /\ UNCHANGED <<pageVars, j, slaveItems, curMaster, mainImage,
                             data, visits, faults>>
         ELSE
           \E o \in {x \in Outcomes : CanHappen(x)} :
           \E mv \in {cur[i]} :
           \E clicked \in {~mv.isSelected} :
             /\ ~clicked => o = "ok"
             /\ visits' = Append(visits, Visit(masterKey, mv, clicked, o, Clicks, TRUE,
                                           clicked /\ SelectVariant(masterKey, mv, o) # "throw",
                                           ImageWait(masterKey, mv, clicked, o)))
             /\ faults' = IF IsFault(o) THEN faults + 1 ELSE faults
             /\ IF clicked /\ SelectVariant(masterKey, mv, o) = "throw"
                  THEN /\ pc' = "thrown"
                       /\ discoveries' = discoveries + 1
                       /\ UNCHANGED <<pageVars, i, j, slaveItems,
                                      curMaster, mainImage, data>>
                  ELSE
                    \E view \in ViewsAfter(masterKey, mv, clicked, o) :
                      /\ PageAfter(masterKey, mv, clicked, o, view)
                      /\ discoveries' = discoveries + 2
                      /\ curMaster' = mv.label
                      /\ \E sc \in {IF clicked THEN ColorNext(masterKey, mv, o) ELSE selColor} :
                         \E ss \in {IF clicked THEN SizeNext(masterKey, mv, o, view) ELSE selSize} :
                         \E slave \in {ItemsOfKey(handleCollectVariants(sc, ss, view), slaveKey)} :
                           /\ mainImage' = extractMainImage(sc)
                           /\ IF HasSlaveItems(slaveKey, slave)
                                THEN /\ slaveItems' = slave
                                     /\ j' = 1
                                     /\ pc' = "slave"
                                     /\ UNCHANGED <<i, data>>
                                ELSE /\ data' = Append(data,
                                          Snapshot(mv.label, Undefined, sc, ss,
                                                   extractMainImage(sc)))
                                     /\ i' = i + 1
                                     /\ pc' = LoopPc(i + 1, nMaster, "master")
                                     /\ UNCHANGED <<j, slaveItems>>
  /\ UNCHANGED <<impl, priceVars, navVars, call, batchVars, retryCount, masterKey, slaveKey, nMaster, rows>>

\* lines 575-628: one iteration of the slave loop
CollectSlave ==
  /\ impl = "collect"
  /\ pc = "slave"
  /\ IF j > Len(slaveItems)
       THEN \* line 575: the loop condition fails
            /\ j' = 1
            /\ i' = i + 1
            /\ pc' = LoopPc(i + 1, nMaster, "master")
            /\ UNCHANGED <<pageVars, data, visits, faults>>
       ELSE
         \E o \in {x \in Outcomes : CanHappen(x)} :
         \E view \in ViewsAfter(slaveKey, slaveItems[j], TRUE, o) :
           LET sv == slaveItems[j]
               sc == ColorNext(slaveKey, sv, o)
               ss == SizeNext(slaveKey, sv, o, view)
               last == j >= Len(slaveItems)
           IN  /\ visits' = Append(visits, Visit(slaveKey, sv, TRUE, o, ClicksAfterLast(masterKey), TRUE,
                                          safeClick(o) # "throw",
                                          ImageWait(slaveKey, sv, TRUE, o)))
               /\ faults' = IF IsFault(o) THEN faults + 1 ELSE faults
               /\ IF safeClick(o) = "throw"
                    THEN /\ pc' = "thrown"
                         /\ UNCHANGED <<pageVars, i, j, data>>
                    ELSE /\ PageAfter(slaveKey, sv, TRUE, o, view)
                         /\ data' = Append(data,
                                Snapshot(curMaster, sv.label, sc, ss, mainImage))
                         /\ j' = IF last THEN 1 ELSE j + 1
                         /\ i' = IF last THEN i + 1 ELSE i
                         /\ pc' = IF last THEN LoopPc(i + 1, nMaster, "master")
                                  ELSE "slave"
  /\ UNCHANGED <<impl, priceVars, navVars, call, batchVars, retryCount, masterKey, slaveKey, nMaster, slaveItems, curMaster, mainImage,
                 rows, discoveries>>

chunkSize == 100

\* as ShopifyRow, with Shopify's "Default Title" written as the option value of
\* a product without option groups
ShopifyRow_DefaultTitle(variant, k) ==
  LET first == k = 1
  IN  [handle |-> (k - 1) \div chunkSize,
       title |-> IF first THEN extractTitle ELSE Blank,
       body |-> IF first THEN 1 ELSE Blank,
       tags |-> IF first THEN 1 ELSE Blank,
       url |-> IF first THEN 1 ELSE Blank,
       n1 |-> capitalizeFirst(masterKey),
       n2 |-> capitalizeFirst(slaveKey),
       o1 |-> IF masterKey # "" THEN OrBlank(variant.master) ELSE 1,
       o2 |-> IF slaveKey # "" THEN OrBlank(variant.slave) ELSE Undefined,
       image |-> variant.image, sc |-> variant.sc, ss |-> variant.ss]

\* lines 714-760: the Shopify row of the k-th entry of allVariantsData
ShopifyRow(variant, k) ==
  LET first == k = 1
  IN  [handle |-> (k - 1) \div chunkSize,
       title |-> IF first THEN extractTitle ELSE Blank,
       body |-> IF first THEN 1 ELSE Blank,
       tags |-> IF first THEN 1 ELSE Blank,
       url |-> IF first THEN 1 ELSE Blank,
       n1 |-> capitalizeFirst(masterKey),
       n2 |-> capitalizeFirst(slaveKey),
       o1 |-> IF masterKey # "" THEN OrBlank(variant.master) ELSE Undefined,
       o2 |-> IF slaveKey # "" THEN OrBlank(variant.slave) ELSE Undefined,
       image |-> variant.image, sc |-> variant.sc, ss |-> variant.ss]

\* lines 650-763: row mapping and return
CollectAssemble ==
  /\ impl = "collect"
  /\ pc = "assemble"
  /\ LET all == IF data = <<>>
                  THEN <<Snapshot(Undefined, Undefined, selColor, selSize,
                                  extractMainImage(selColor))>>
                  ELSE data
     IN  /\ data' = all
         /\ rows' = [k \in 1..Len(all) |-> ShopifyRow(all[k], k)]
  /\ pc' = "returned"
  /\ UNCHANGED <<pageVars, impl, priceVars, navVars, call, batchVars, retryCount, i, j, masterKey, slaveKey, nMaster, slaveItems,
                 curMaster, mainImage, visits, discoveries, faults>>

(***************************************************************************)
(* extractMacyProductData, src/helpers/extractors.js:855-1240              *)
(***************************************************************************)
\* as DisplayedOr, reading the display as it was before the click
DisplayedOr_BeforeClick(g, sc, ss, item) ==
  IF SelectedDisplay(g, selColor, selSize) # Blank
    THEN SelectedDisplay(g, selColor, selSize)
    ELSE item.label

\* text of the selected-value display, else the label of the element at hand
DisplayedOr(g, sc, ss, item) ==
  IF SelectedDisplay(g, sc, ss) # Blank THEN SelectedDisplay(g, sc, ss) ELSE item.label

\* the row literals of lines 992-1039, 1046-1093, 1131-1178 and 1186-1233
RadioRow(o1, o2, n1, n2, img, sc, ss) ==
  LET first == Len(rows) = 0
  IN  [handle |-> 0,
       title |-> IF first THEN extractTitle ELSE Blank,
       body |-> IF first THEN 1 ELSE Blank,
       tags |-> IF first THEN 1 ELSE Blank,
       url |-> 1,
       n1 |-> n1, n2 |-> n2, o1 |-> o1, o2 |-> o2,
       image |-> img, sc |-> sc, ss |-> ss]

\* lines 855-922, 1096, 1180: navigation, page invariants, option names, first queries
RadioStart ==
  /\ impl = "radio"
  /\ pc = "start"
  /\ LET colorSwatchLabels == ColorItems(selColor)
         sizeChipLabels == SizeItems(shown, selSize)
     IN  /\ masterKey' = "Color"
         /\ slaveKey' = "Size"
         /\ nMaster' = IF Len(colorSwatchLabels) > 0 THEN Len(colorSwatchLabels)
                       ELSE Len(sizeChipLabels)
         /\ pc' = IF Len(colorSwatchLabels) > 0 THEN "master"
                  ELSE IF Len(sizeChipLabels) > 0 THEN "sizeonly"
                  ELSE "novariants"
  /\ discoveries' = discoveries + 2
  /\ UNCHANGED <<pageVars, impl, priceVars, navVars, call, batchVars, retryCount, i, j, slaveItems, curMaster, mainImage, data, rows,
                 visits, faults>>

\* lines 924-960 and 1041-1094: one iteration of the colour loop, up to the size loop
RadioColor ==
  /\ impl = "radio"
  /\ pc = "master"
  /\ LET cur == ColorItems(selColor)
     IN  IF i > Len(cur) \/ cur[i].isDisabled
           THEN \* lines 929-932 and 944: not found after re-fetch, or disabled
                /\ i' = i + 1
                /\ pc' = IF i > Len(cur) THEN SkipMissing(i + 1, nMaster)
                         ELSE LoopPc(i + 1, nMaster, "master")
                /\ discoveries' = discoveries + 1
                /\ UNCHANGED <<pageVars, j, slaveItems, curMaster, mainImage,
                               rows, visits, faults>>
           ELSE
             \E o \in Outcomes :
             \E view \in ViewsAfter("Color", cur[i], ~cur[i].isSelected, o) :
               LET colorLabel == cur[i]
                   clicked == ~colorLabel.isSelected
                   sc == IF clicked THEN ColorNext("Color", colorLabel, o) ELSE selColor
                   ss == IF clicked THEN SizeNext("Color", colorLabel, o, view)
                         ELSE selSize
                   value == DisplayedOr("Color", sc, ss, colorLabel)
                   sizeChipLabels == SizeItems(view, ss)
               IN  /\ CanHappen(o)
                   /\ ~clicked => o = "ok"
                   /\ visits' = Append(visits, Visit("Color", colorLabel, clicked, o, Clicks,
                                                    SelectedDisplay("Color", sc, ss) = Blank,
                                                    clicked /\ SelectVariant("Color", colorLabel, o) # "throw",
                                                    ImageWait("Color", colorLabel, clicked, o)))
                   /\ faults' = IF IsFault(o) THEN faults + 1 ELSE faults
                   /\ IF clicked /\ SelectVariant("Color", colorLabel, o) = "throw"
                        THEN /\ pc' = "thrown"
                             /\ discoveries' = discoveries + 1
                             /\ UNCHANGED <<pageVars, i, j, slaveItems,
                                            curMaster, mainImage, rows>>
                        ELSE /\ PageAfter("Color", colorLabel, clicked, o, view)
                             /\ discoveries' = discoveries + 2
                             /\ curMaster' = value
                             /\ mainImage' = extractMainImage(sc)
                             /\ IF Len(sizeChipLabels) > 0
                                  THEN /\ slaveItems' = sizeChipLabels
                                       /\ j' = 1
                                       /\ pc' = "slave"
                                       /\ UNCHANGED <<i, rows>>
                                  ELSE /\ rows' = Append(rows,
                                            RadioRow(value, Blank, masterKey, "",
                                                     extractMainImage(sc), sc, ss))
                                       /\ i' = i + 1
                                       /\ pc' = LoopPc(i + 1, nMaster, "master")
                                       /\ UNCHANGED <<j, slaveItems>>
  /\ UNCHANGED <<impl, priceVars, navVars, call, batchVars, retryCount, masterKey, slaveKey, nMaster, data>>

\* lines 962-1040: one iteration of the size loop under a colour
RadioSize ==
  /\ impl = "radio"
  /\ pc = "slave"
  /\ LET cur == SizeItems(shown, selSize)
         last == j >= Len(slaveItems)
         jNext == IF last THEN 1 ELSE j + 1
         iNext == IF last THEN i + 1 ELSE i
         pcNext == IF last THEN LoopPc(i + 1, nMaster, "master") ELSE "slave"
     IN  IF j > Len(cur) \/ cur[j].isDisabled
           THEN \* lines 966-969 and 981
                /\ j' = jNext
                /\ i' = iNext
                /\ pc' = pcNext
                /\ UNCHANGED <<pageVars, rows, visits, faults>>
           ELSE
             \E o \in Outcomes :
             \E view \in ViewsAfter("Size", cur[j], ~cur[j].isSelected, o) :
               LET sizeLabel == cur[j]
                   clicked == ~sizeLabel.isSelected
                   sc == IF clicked THEN ColorNext("Size", sizeLabel, o) ELSE selColor
                   ss == IF clicked THEN SizeNext("Size", sizeLabel, o, view)
                         ELSE selSize
                   value == DisplayedOr("Size", sc, ss, sizeLabel)
               IN  /\ CanHappen(o)
                   /\ ~clicked => o = "ok"
                   /\ visits' = Append(visits, Visit("Size", sizeLabel, clicked, o, Clicks,
                                                    SelectedDisplay("Size", sc, ss) = Blank,
                                                    clicked /\ plainClick(o) # "throw", "none"))
                   /\ faults' = IF IsFault(o) THEN faults + 1 ELSE faults
                   /\ IF clicked /\ plainClick(o) = "throw"
                        THEN /\ pc' = "thrown"
                             /\ UNCHANGED <<pageVars, i, j, rows>>
                        ELSE /\ PageAfter("Size", sizeLabel, clicked, o, view)
                             /\ rows' = Append(rows,
                                  RadioRow(curMaster, value, masterKey, slaveKey,
                                           mainImage, sc, ss))
                             /\ j' = jNext
                             /\ i' = iNext
                             /\ pc' = pcNext
  /\ discoveries' = discoveries + 1
  /\ UNCHANGED <<impl, priceVars, navVars, call, batchVars, retryCount, masterKey, slaveKey, nMaster, slaveItems, curMaster, mainImage,
                 data>>

\* lines 1096-1179: one iteration of the size loop of a product without colours
RadioSizeOnly ==
  /\ impl = "radio"
  /\ pc = "sizeonly"
  /\ LET cur == SizeItems(shown, selSize)
     IN  IF i > Len(cur) \/ cur[i].isDisabled
           THEN \* lines 1104-1107 and 1119
                /\ i' = i + 1
                /\ pc' = LoopPc(i + 1, nMaster, "sizeonly")
                /\ UNCHANGED <<pageVars, rows, visits, faults>>
           ELSE
             \E o \in Outcomes :
             \E view \in ViewsAfter("Size", cur[i], ~cur[i].isSelected, o) :
               LET sizeLabel == cur[i]
                   clicked == ~sizeLabel.isSelected
                   sc == IF clicked THEN ColorNext("Size", sizeLabel, o) ELSE selColor
                   ss == IF clicked THEN SizeNext("Size", sizeLabel, o, view)
                         ELSE selSize
                   value == DisplayedOr("Size", sc, ss, sizeLabel)
               IN  /\ CanHappen(o)
                   /\ ~clicked => o = "ok"
                   /\ visits' = Append(visits, Visit("Size", sizeLabel, clicked, o, Clicks,
                                                    SelectedDisplay("Size", sc, ss) = Blank,
                                                    clicked /\ plainClick(o) # "throw", "none"))
                   /\ faults' = IF IsFault(o) THEN faults + 1 ELSE faults
                   /\ IF clicked /\ plainClick(o) = "throw"
                        THEN /\ pc' = "thrown"
                             /\ UNCHANGED <<pageVars, i, rows>>
                        ELSE /\ PageAfter("Size", sizeLabel, clicked, o, view)
                             /\ rows' = Append(rows,
                                  RadioRow(value, Blank, masterKey, "",
                                           extractMainImage(sc), sc, ss))
                             /\ i' = i + 1
                             /\ pc' = LoopPc(i + 1, nMaster, "sizeonly")
  /\ discoveries' = discoveries + 1
  /\ UNCHANGED <<impl, priceVars, navVars, call, batchVars, retryCount, j, masterKey, slaveKey, nMaster, slaveItems, curMaster,
                 mainImage, data>>

\* lines 1180-1234: no colour and no size
RadioNoVariants ==
  /\ impl = "radio"
  /\ pc = "novariants"
  /\ rows' = Append(rows, RadioRow(Blank, Blank, "", "", extractMainImage(selColor),
                                   selColor, selSize))
  /\ pc' = "assemble"
  /\ UNCHANGED <<pageVars, impl, priceVars, navVars, call, batchVars, retryCount, i, j, masterKey, slaveKey, nMaster, slaveItems,
                 curMaster, mainImage, data, visits, discoveries, faults>>

\* line 1235: return allShopifyRows
RadioReturn ==
  /\ impl = "radio"
  /\ pc = "assemble"
  /\ pc' = "returned"
  /\ UNCHANGED <<pageVars, impl, priceVars, navVars, call, batchVars, retryCount, i, j, masterKey, slaveKey, nMaster, slaveItems,
                 curMaster, mainImage, data, rows, visits, discoveries, faults>>

(***************************************************************************)
(* extractMacyProductData, src/unnamed/part_005:715-976                    *)
(***************************************************************************)
maxRetries == 3

\* createShopifyRow, src/unnamed/part_005:983-1024, as called in lines 851-963
RetryRow(o1, o2, n1, n2, img, sc, ss) ==
  LET first == Len(rows) = 0
  IN  [handle |-> 0,
       title |-> IF first THEN extractTitle ELSE Blank,
       body |-> IF first THEN 1 ELSE Blank,
       tags |-> IF first THEN 1 ELSE Blank,
       url |-> 1,
       n1 |-> n1, n2 |-> n2, o1 |-> o1, o2 |-> o2,
       image |-> img, sc |-> sc, ss |-> ss]

\* a click that fails both ways is caught per item, so it is counted
RetryCanHappen(o) == CanHappen(o) /\ (o = "throw" => faults < MaxFaults)

\* lines 721-777, 897, 947: one pass of the retry loop up to the first queries
RetryStart ==
  /\ impl = "retry"
  /\ pc = "start"
  /\ IF ~hasTitle
       THEN \* lines 728-734: TITLE_NAME never shows up
            /\ retryCount' = retryCount + 1
            /\ pc' = IF retryCount + 1 < maxRetries THEN "start" ELSE "fellthrough"
            /\ UNCHANGED <<masterKey, slaveKey, nMaster, slaveItems, discoveries>>
       ELSE LET colorSwatches == ColorItems(selColor)
                sizeChips == SizeItems(shown, selSize)
            IN  /\ masterKey' = IF Len(colorSwatches) > 0 THEN "Color"
                                ELSE IF Len(sizeChips) > 0 THEN "Size" ELSE ""
                /\ slaveKey' = "Size"
                /\ nMaster' = IF Len(colorSwatches) > 0 THEN Len(colorSwatches)
                              ELSE Len(sizeChips)
                /\ slaveItems' = sizeChips
                /\ pc' = IF Len(colorSwatches) > 0 THEN "master"
                         ELSE IF Len(sizeChips) > 0 THEN "sizeonly"
                         ELSE "novariants"
                /\ discoveries' = discoveries + 2
                /\ UNCHANGED retryCount
  /\ UNCHANGED <<pageVars, impl, priceVars, navVars, call, batchVars, i, j, curMaster, mainImage, data, rows,
                 visits, faults>>

\* lines 781-821 and 871-894: one iteration of the colour loop, up to the size loop
RetryColor ==
  /\ impl = "retry"
  /\ pc = "master"
  /\ LET cur == ColorItems(selColor)
     IN  IF i > Len(cur)
           THEN \* lines 787-790
                /\ i' = i + 1
                /\ pc' = LoopPc(i + 1, nMaster, "master")
                /\ UNCHANGED <<pageVars, j, slaveItems, curMaster, mainImage,
                               rows, visits, faults>>
           ELSE
             \E o \in Outcomes :
             \E view \in ViewsAfter("Color", cur[i], ~cur[i].isSelected, o) :
               LET colorSwatch == cur[i]
                   colorValue == colorSwatch.label
                   clicked == ~colorSwatch.isSelected
                   sc == IF clicked THEN ColorNext("Color", colorSwatch, o) ELSE selColor
                   ss == IF clicked THEN SizeNext("Color", colorSwatch, o, view)
                         ELSE selSize
                   currentSizeChips == SizeItems(view, ss)
               IN  /\ RetryCanHappen(o)
                   /\ ~clicked => o = "ok"
                   /\ visits' = Append(visits, Visit("Color", colorSwatch, clicked, o, Clicks, FALSE,
                                                    clicked /\ safeClick(o) # "throw", "none"))
                   /\ faults' = IF IsFault(o) THEN faults + 1 ELSE faults
                   /\ IF clicked /\ safeClick(o) = "throw"
                        THEN \* lines 891-893
                             /\ i' = i + 1
                             /\ pc' = LoopPc(i + 1, nMaster, "master")
                             /\ UNCHANGED <<pageVars, j, slaveItems, curMaster,
                                            mainImage, rows>>
                        ELSE /\ PageAfter("Color", colorSwatch, clicked, o, view)
                             /\ curMaster' = colorValue
                             /\ mainImage' = extractMainImage(sc)
                             /\ IF Len(currentSizeChips) > 0
                                  THEN /\ slaveItems' = currentSizeChips
                                       /\ j' = 1
                                       /\ pc' = "slave"
                                       /\ UNCHANGED <<i, rows>>
                                  ELSE /\ rows' = Append(rows,
                                            RetryRow(colorValue, Blank, masterKey, "",
                                                     extractMainImage(sc), sc, ss))
                                       /\ i' = i + 1
                                       /\ pc' = LoopPc(i + 1, nMaster, "master")
                                       /\ UNCHANGED <<j, slaveItems>>
  /\ discoveries' = discoveries + 2
  /\ UNCHANGED <<impl, priceVars, navVars, call, batchVars, retryCount, masterKey, slaveKey, nMaster, data>>

\* one iteration of a loop over size chips fetched earlier: lines 823-870 under
\* a colour (byColor), lines 901-944 for a product without colours
RetrySizeStep(byColor, k, whenDone) ==
  \E o \in Outcomes :
  \E view \in ViewsAfter("Size", slaveItems[k], selSize # slaveItems[k].label, o) :
    LET sizeChip == slaveItems[k]
        sizeValue == sizeChip.label
        clicked == selSize # sizeValue
        sc == IF clicked THEN ColorNext("Size", sizeChip, o) ELSE selColor
        ss == IF clicked THEN SizeNext("Size", sizeChip, o, view) ELSE selSize
    IN  /\ RetryCanHappen(o)
        /\ ~clicked => o = "ok"
        /\ visits' = Append(visits, Visit("Size", sizeChip, clicked, o,
                                      ClicksAfterLast("Color"), FALSE,
                                      clicked /\ safeClick(o) # "throw", "none"))
        /\ faults' = IF IsFault(o) THEN faults + 1 ELSE faults
        /\ IF clicked /\ safeClick(o) = "throw"
             THEN \* lines 867-869 and 941-943
                  UNCHANGED <<pageVars, rows>>
             ELSE /\ PageAfter("Size", sizeChip, clicked, o, view)
                  /\ rows' = Append(rows,
                       IF byColor
                         THEN RetryRow(curMaster, sizeValue, "Color", slaveKey,
                                       mainImage, sc, ss)
                         ELSE RetryRow(sizeValue, Blank, masterKey, "",
                                       extractMainImage(sc), sc, ss))
        /\ whenDone

\* lines 823-870: one iteration of the size loop under a colour
RetrySize ==
  /\ impl = "retry"
  /\ pc = "slave"
  /\ LET last == j >= Len(slaveItems)
     IN  RetrySizeStep(TRUE, j,
           /\ j' = IF last THEN 1 ELSE j + 1
           /\ i' = IF last THEN i + 1 ELSE i
           /\ pc' = IF last THEN LoopPc(i + 1, nMaster, "master") ELSE "slave")
  /\ UNCHANGED <<impl, priceVars, navVars, call, batchVars, retryCount, masterKey, slaveKey, nMaster, slaveItems, curMaster,
                 mainImage, data, discoveries>>

\* lines 897-944: one iteration of the size loop of a product without colours
RetrySizeOnly ==
  /\ impl = "retry"
  /\ pc = "sizeonly"
  /\ RetrySizeStep(FALSE, i,
       /\ i' = i + 1
       /\ pc' = LoopPc(i + 1, nMaster, "sizeonly"))
  /\ UNCHANGED <<impl, priceVars, navVars, call, batchVars, retryCount, j, masterKey, slaveKey, nMaster, slaveItems,
                 curMaster, mainImage, data, discoveries>>

\* lines 947-964: no colour and no size
RetryNoVariants ==
  /\ impl = "retry"
  /\ pc = "novariants"
  /\ rows' = Append(rows, RetryRow(Blank, Blank, "", "", extractMainImage(selColor),
                                   selColor, selSize))
  /\ pc' = "assemble"
  /\ UNCHANGED <<pageVars, impl, priceVars, navVars, call, batchVars, retryCount, i, j, masterKey, slaveKey, nMaster,
                 slaveItems, curMaster, mainImage, data, visits, discoveries, faults>>

\* line 966: return allShopifyRows
RetryReturn ==
  /\ impl = "retry"
  /\ pc = "assemble"
  /\ pc' = "returned"
  /\ UNCHANGED <<pageVars, impl, priceVars, navVars, call, batchVars, retryCount, i, j, masterKey, slaveKey, nMaster,
                 slaveItems, curMaster, mainImage, data, rows, visits, discoveries,
                 faults>>

(***************************************************************************)
(* The batch loop, src/index.js:14-131                                     *)
(***************************************************************************)
\* pages with every item enabled and a size group that is the same under
\* every colour
PlainPages ==
  {p \in Pages :
     /\ p.disColors = {}
     /\ ~p.dependent
     /\ p.hasTitle
     /\ p.containerVisible
     /\ p.sizeDim = (Present(p.shown) # {})
     /\ \E k \in 0..MaxSizes :
          \A s \in 1..MaxSizes : p.shown[s] = IF s <= k THEN "live" ELSE "absent"}

CataloguePages == IF catalogue = "plain" THEN PlainPages ELSE Pages

\* a new tab, before the first page.goto
BlankPage ==
  [nColors |-> 0, disColors |-> {}, sizeDim |-> FALSE, dependent |-> FALSE,
   shown |-> NoSizes, containerVisible |-> FALSE, hasTitle |-> FALSE]

\* page.goto(url) went through and the browser shows p
Load(p) ==
  /\ nColors' = p.nColors
  /\ disColors' = p.disColors
  /\ sizeDim' = p.sizeDim
  /\ dependent' = p.dependent
  /\ shown' = p.shown
  /\ containerVisible' = p.containerVisible
  /\ hasTitle' = p.hasTitle
  /\ selColor' = FirstColor(p)
  /\ selSize' = 0
  /\ seen' = (FirstColor(p) :> Seen(p.shown))
  /\ sawDisabledSize' = (Disabled(p.shown) # {})
  /\ UNCHANGED flaky

\* createProductRow, src/index.js:133-168
createProductRow(o1, o2, n1, n2, img, sc, ss) ==
  [handle |-> 0, title |-> extractTitle, body |-> 1, tags |-> 1, url |-> urlIdx,
   n1 |-> n1, n2 |-> n2, o1 |-> o1, o2 |-> o2, image |-> img, sc |-> sc, ss |-> ss]

\* as AfterFailure, with the error leaving the for loop
AfterFailure_Abort(u) == urls + 1

\* lines 117-119: the catch block logs, the for loop goes on with the next URL
AfterFailure(u) == u + 1

\* lines 28-44: the next URL of the list is opened and its variants are listed
MainGoto ==
  /\ impl = "main"
  /\ pc = "goto"
  /\ urlIdx <= urls
  /\ attempted' = Append(attempted, urlIdx)
  /\ \/ \* page.goto throws
        /\ pc' = "goto"
        /\ urlIdx' = AfterFailure(urlIdx)
        /\ UNCHANGED <<pageVars, i, nMaster, slaveItems, mainImage, visits>>
     \/ \E p \in CataloguePages :
          LET colorVariants == p.nColors
              sizeVariants == SizeItems(p.shown, 0)
          IN  /\ Load(p)
              /\ i' = 1
              /\ nMaster' = colorVariants
              /\ slaveItems' = sizeVariants
              /\ mainImage' = extractMainImage(FirstColor(p))
              /\ visits' = <<>>
              /\ pc' = IF colorVariants = 0 /\ Len(sizeVariants) = 0 THEN "novariants"
                       ELSE IF colorVariants > 0 /\ Len(sizeVariants) > 0 THEN "master"
                       ELSE IF colorVariants > 0 THEN "coloronly"
                       ELSE "sizeonly"
              /\ UNCHANGED urlIdx
  /\ UNCHANGED <<impl, priceVars, navVars, call, catalogue, urls, successCount, retryCount, j, masterKey, slaveKey,
                 curMaster, data, rows, discoveries, faults>>

\* lines 46-54: no variants
MainNoVariants ==
  /\ impl = "main"
  /\ pc = "novariants"
  /\ rows' = Append(rows, createProductRow(Blank, Blank, "", "", mainImage,
                                           selColor, selSize))
  /\ successCount' = successCount + 1
  /\ urlIdx' = urlIdx + 1
  /\ pc' = "goto"
  /\ UNCHANGED <<pageVars, impl, priceVars, navVars, call, catalogue, urls, attempted, retryCount, i, j, masterKey,
                 slaveKey, nMaster, slaveItems, curMaster, mainImage, data, visits,
                 discoveries, faults>>

\* one iteration of a loop over colorVariants: lines 57-77 with a row per
\* listed size (bySize), lines 83-99 with one row
MainColorStep(bySize) ==
  \E o \in Outcomes :
  \E view \in ViewsAfter("Color", ColorItems(selColor)[i], TRUE, o) :
    LET color == ColorItems(selColor)[i]
        sc == ColorNext("Color", color, o)
        ss == SizeNext("Color", color, o, view)
        colorImage == extractMainImage(sc)
        last == i >= nMaster
    IN  /\ CanHappen(o)
        /\ visits' = Append(visits, Visit("Color", color, TRUE, o, 0, FALSE,
                                      plainClick(o) # "throw", "none"))
        /\ faults' = IF IsFault(o) THEN faults + 1 ELSE faults
        /\ IF plainClick(o) = "throw"
             THEN /\ urlIdx' = AfterFailure(urlIdx)
                  /\ pc' = "goto"
                  /\ UNCHANGED <<pageVars, i, mainImage, rows, successCount>>
             ELSE /\ PageAfter("Color", color, TRUE, o, view)
                  /\ mainImage' = colorImage
                  /\ rows' = rows \o
                       (IF bySize
                          THEN [k \in 1..Len(slaveItems) |->
                                  createProductRow(color.label, slaveItems[k].label,
                                                   "Color", "Size", colorImage, sc, ss)]
                          ELSE <<createProductRow(color.label, Blank, "Color", "",
                                                  colorImage, sc, ss)>>)
                  /\ i' = i + 1
                  /\ successCount' = IF last THEN successCount + 1 ELSE successCount
                  /\ urlIdx' = IF last THEN urlIdx + 1 ELSE urlIdx
                  /\ pc' = IF last THEN "goto" ELSE pc

\* lines 55-80: one iteration of the colour loop of a product with colours and sizes
MainColor ==
  /\ impl = "main"
  /\ pc = "master"
  /\ MainColorStep(TRUE)
  /\ UNCHANGED <<impl, priceVars, navVars, call, catalogue, urls, attempted, retryCount, j, masterKey, slaveKey,
                 nMaster, slaveItems, curMaster, data, discoveries>>

\* lines 81-102: one iteration of the colour loop of a product without sizes
MainColorOnly ==
  /\ impl = "main"
  /\ pc = "coloronly"
  /\ MainColorStep(FALSE)
  /\ UNCHANGED <<impl, priceVars, navVars, call, catalogue, urls, attempted, retryCount, j, masterKey, slaveKey,
                 nMaster, slaveItems, curMaster, data, discoveries>>

\* lines 103-115: a row per listed size, nothing is clicked
MainSizeOnly ==
  /\ impl = "main"
  /\ pc = "sizeonly"
  /\ rows' = rows \o [k \in 1..Len(slaveItems) |->
                        createProductRow(slaveItems[k].label, Blank, "Size", "",
                                         mainImage, selColor, selSize)]
  /\ successCount' = successCount + 1
  /\ urlIdx' = urlIdx + 1
  /\ pc' = "goto"
  /\ UNCHANGED <<pageVars, impl, priceVars, navVars, call, catalogue, urls, attempted, retryCount, i, j, masterKey,
                 slaveKey, nMaster, slaveItems, curMaster, mainImage, data, visits,
                 discoveries, faults>>

\* lines 120-130: the URL list is used up, the browser closes, the rows are saved
MainFinish ==
  /\ impl = "main"
  /\ pc = "goto"
  /\ urlIdx > urls
  /\ pc' = "returned"
  /\ UNCHANGED <<pageVars, impl, priceVars, navVars, call, batchVars, retryCount, i, j, masterKey, slaveKey,
                 nMaster, slaveItems, curMaster, mainImage, data, rows, visits,
                 discoveries, faults>>

\* what src/index.js hands to the serialization sink: saveToCSV takes the rows
\* and nothing else
saveToCSV(allProducts) == [productRows |-> allProducts, failedUrls |-> {}]

\* lines 124-130: the sink is called when there is at least one row
Saved == IF Len(rows) > 0 THEN saveToCSV(rows) ELSE saveToCSV(<<>>)

(***************************************************************************)
(* Specifications                                                          *)
(***************************************************************************)
Next ==
  \/ CollectStart
  \/ CollectNoVariants
  \/ CollectMaster
  \/ CollectSlave
  \/ CollectAssemble
  \/ RadioStart
  \/ RadioColor
  \/ RadioSize
  \/ RadioSizeOnly
  \/ RadioNoVariants
  \/ RadioReturn

\* the revisions of src/helpers/extractors.js on pages whose clicks select or fail
Spec == Init /\ [][Next]_vars

(***************************************************************************)
(* A page that loses an item while it is traversed: between two iterations *)
(* of the outer loop the last item of the primary group, not the selected  *)
(* one, leaves the document.                                               *)
(***************************************************************************)
ItemVanishes ==
  /\ impl \in {"collect", "radio"}
  /\ pc = "master"
  /\ IF HasColors
       THEN /\ nColors # selColor
            /\ nColors' = nColors - 1
            /\ disColors' = disColors \ {nColors}
            /\ UNCHANGED shown
       ELSE \E s \in Present(shown) :
            /\ \A t \in Present(shown) : t <= s
            /\ s # selSize
            /\ shown' = [shown EXCEPT ![s] = "absent"]
            /\ UNCHANGED <<nColors, disColors>>
  /\ UNCHANGED <<flaky, sizeDim, dependent, containerVisible, hasTitle, selColor, selSize,
                 seen, sawDisabledSize, engineVars>>

NextVanishing == Next \/ ItemVanishes

\* the revisions of src/helpers/extractors.js on pages that lose items
SpecVanishing == Init /\ [][NextVanishing]_vars

\* pages on which a click may also go through without moving the selection, or
\* only through the el.click() fallback
InitFlaky ==
  /\ impl \in Impls
  /\ flaky = TRUE
  /\ PageInit
  /\ EngineInit
  /\ pc = "start"
  /\ NoBatch
  /\ NoPricing

\* the revisions of src/helpers/extractors.js on pages with unreliable clicks
SpecFlaky == InitFlaky /\ [][Next]_vars

InitRetry ==
  /\ impl = "retry"
  /\ flaky = FALSE
  /\ PageInit
  /\ EngineInit
  /\ pc = "start"
  /\ NoBatch
  /\ NoPricing

NextRetry ==
  \/ RetryStart
  \/ RetryColor
  \/ RetrySize
  \/ RetrySizeOnly
  \/ RetryNoVariants
  \/ RetryReturn

\* the revision of src/unnamed/part_005
SpecRetry == InitRetry /\ [][NextRetry]_vars

MaxUrls == 2

MainInit(kind) ==
  /\ impl = "main"
  /\ flaky = FALSE
  /\ PageIs(BlankPage)
  /\ EngineInit
  /\ pc = "goto"
  /\ NoPricing
  /\ catalogue = kind
  /\ urlIdx = 1
  /\ successCount = 0
  /\ attempted = <<>>

InitMain ==
  /\ MainInit("plain")
  /\ urls \in 0..MaxUrls

InitMainVisit ==
  /\ MainInit("any")
  /\ urls = 1

NextMain ==
  \/ MainGoto
  \/ MainNoVariants
  \/ MainColor
  \/ MainColorOnly
  \/ MainSizeOnly
  \/ MainFinish

\* src/index.js over a list of plain pages
SpecMain == InitMain /\ [][NextMain]_vars

\* src/index.js over a list of one page of any kind
SpecMainVisit == InitMainVisit /\ [][NextMain]_vars

(***************************************************************************)
(* Price derivation.  A price text is a sequence of characters; numbers    *)
(* are exact decimal fractions num/den, so that what the floating point    *)
(* computation rounds is known: where the exact value sits on a rounding   *)
(* boundary the double may fall on either side, and both results are       *)
(* possible.                                                                *)
(*   "formatters" src/helpers/formatters.js:51-71                          *)
(*   "aed"        src/unnamed/part_013:47-64                               *)
(*   "variant"    src/helpers/formatters.js:82-84 (calculateVariantPrice)  *)
(***************************************************************************)
MaxDigits == 6

Digits == {"0", "1", "2", "3", "4", "5", "6", "7", "8", "9"}
DigitChars == <<"0", "1", "2", "3", "4", "5", "6", "7", "8", "9">>
DigitVal(ch) == (CHOOSE k \in 1..10 : DigitChars[k] = ch) - 1

RECURSIVE Pow10(_)
Pow10(n) == IF n = 0 THEN 1 ELSE 10 * Pow10(n - 1)

RECURSIVE DigitsToNat(_)
DigitsToNat(s) ==
  IF s = <<>> THEN 0
  ELSE 10 * DigitsToNat(SubSeq(s, 1, Len(s) - 1)) + DigitVal(s[Len(s)])

RECURSIVE NatToDigits(_)
NatToDigits(n) ==
  IF n < 10 THEN <<DigitChars[n + 1]>>
  ELSE NatToDigits(n \div 10) \o <<DigitChars[(n % 10) + 1]>>

\* length of the longest prefix of s made of the characters in cs
RunLength(s, cs) ==
  CHOOSE n \in 0..Len(s) :
    /\ \A k \in 1..n : s[k] \in cs
    /\ n < Len(s) => s[n + 1] \notin cs

NaN == [nan |-> TRUE, num |-> 0, den |-> 1]
Zero == [nan |-> FALSE, num |-> 0, den |-> 1]

\* parseFloat on a string of digits and points: the longest numeric prefix
parseFloat(s) ==
  LET n == RunLength(s, Digits)
      rest == SubSeq(s, n + 1, Len(s))
      frac == IF rest # <<>> /\ rest[1] = "." THEN Tail(rest) ELSE <<>>
      m == RunLength(frac, Digits)
  IN IF n = 0 /\ m = 0 THEN NaN
     ELSE [nan |-> FALSE,
           num |-> DigitsToNat(SubSeq(s, 1, n) \o SubSeq(frac, 1, m)),
           den |-> Pow10(m)]

IsPriceChar(ch) == ch \in Digits \cup {"."}
NotComma(ch) == ch # ","

\* text.replace(/[^0-9.]/g, '')
StripNonNumeric(text) == SelectSeq(text, IsPriceChar)

Times(x, num, den) ==
  IF x.nan THEN NaN ELSE [nan |-> FALSE, num |-> x.num * num, den |-> x.den * den]

CentsText(c) ==
  NatToDigits(c \div 100) \o <<".">> \o <<DigitChars[((c % 100) \div 10) + 1]>>
    \o <<DigitChars[(c % 10) + 1]>>

NaNText == <<"N", "a", "N">>

\* x in cents is WholeCents(x) + RestOfCent(x) / CentUnit(x); the denominators
\* are powers of ten
CentUnit(x) == IF x.den <= 100 THEN 1 ELSE x.den \div 100
WholeCents(x) == IF x.den <= 100 THEN x.num * (100 \div x.den) ELSE x.num \div CentUnit(x)
RestOfCent(x) == IF x.den <= 100 THEN 0 ELSE x.num % CentUnit(x)

\* x.toFixed(2): the texts the call can return
toFixed2(x) ==
  IF x.nan THEN {NaNText}
  ELSE LET q == WholeCents(x)
           r == RestOfCent(x)
       IN IF 2 * r < CentUnit(x) THEN {CentsText(q)}
          ELSE IF 2 * r > CentUnit(x) THEN {CentsText(q + 1)}
          ELSE {CentsText(q), CentsText(q + 1)}

\* Math.floor(x * 100) / 100: the values the expression can have
FloorCents(x) ==
  IF x.nan THEN {NaN}
  ELSE LET q == WholeCents(x)
           r == RestOfCent(x)
       IN IF r = 0 /\ q > 0
            THEN {[nan |-> FALSE, num |-> q, den |-> 100],
                  [nan |-> FALSE, num |-> q - 1, den |-> 100]}
            ELSE {[nan |-> FALSE, num |-> q, den |-> 100]}

\* Math.round(x * m / d), half way cases up
RoundScaled(x, m, d) ==
  IF x.nan THEN NaNText
  ELSE LET whole == (x.num \div d) * m + ((x.num % d) * m) \div d
           rest == ((x.num % d) * m) % d
       IN NatToDigits((2 * whole + x.den + (2 * rest) \div d) \div (2 * x.den))

\* VARIANT_PRICE_RATE in tenths: 1.3 and, further down the same file, 1.5
VARIANT_PRICE_RATES == {13, 15}

\* src/helpers/formatters.js: the results calculatePrices can return
calculatePrices(text, rate) ==
  IF text = <<>> THEN {NotPriced}
  ELSE LET cleanedCostPerItem == parseFloat(StripNonNumeric(text))
       IN IF cleanedCostPerItem.nan THEN {NotPriced}
          ELSE {[costPerItem |-> c, variantPrice |-> v, compareAtPrice |-> c] :
                  c \in toFixed2(cleanedCostPerItem),
                  v \in toFixed2(Times(cleanedCostPerItem, rate, 10))}

\* Math.random() is sampled at 0 and at 1/2
MathRandom == {[num |-> 0, den |-> 2], [num |-> 1, den |-> 2]}

\* Math.round(variantPrice * (1 + randomPercent)), randomPercent in [0.15, 0.3)
generateCompareAtPrice(variantPrice) ==
  {RoundScaled(variantPrice, 115 * r.den + 15 * r.num, 100 * r.den) : r \in MathRandom}

\* previousPriceText.match(/AED\s*([\d.,]+)/): the captured group, <<>> without a match
MatchAED(text) ==
  LET Starts(p) == /\ p + 2 <= Len(text)
                   /\ text[p] = "A" /\ text[p + 1] = "E" /\ text[p + 2] = "D"
      Captured(p) == LET after == SubSeq(text, p + 3, Len(text))
                         number == SubSeq(after, RunLength(after, {" "}) + 1, Len(after))
                     IN SubSeq(number, 1, RunLength(number, Digits \cup {".", ","}))
      matches == {p \in 1..Len(text) : Starts(p) /\ Captured(p) # <<>>}
  IN IF matches = {} THEN <<>>
     ELSE Captured(CHOOSE p \in matches : \A q \in matches : p <= q)

\* src/unnamed/part_013: the results calculatePrices can return
calculatePrices_AED(text, rate) ==
  LET match == MatchAED(text)
      costPerItem == IF match # <<>> THEN parseFloat(SelectSeq(match, NotComma)) ELSE Zero
      variantPrice == Times(costPerItem, rate, 10)
  IN {[costPerItem |-> c, variantPrice |-> v, compareAtPrice |-> x] :
        c \in toFixed2(costPerItem),
        v \in UNION {toFixed2(f) : f \in FloorCents(variantPrice)},
        x \in generateCompareAtPrice(variantPrice)}

\* src/helpers/formatters.js: calculateVariantPrice, with the cost text the
\* caller writes to the row next to it
calculateVariantPrice(costPerItem) ==
  {[costPerItem |-> costPerItem, variantPrice |-> v, compareAtPrice |-> <<>>] :
     v \in toFixed2(Times(parseFloat(costPerItem), 13, 10))}

PriceAlphabet == {"1", "2", "9", "."}
PricePrefixes == {<<>>, <<"$">>, <<"A", "E", "D", " ">>}
PriceTexts ==
  {p \o b : p \in PricePrefixes, b \in UNION {[1..n -> PriceAlphabet] : n \in 0..MaxDigits}}
PriceRevs == {"formatters", "aed", "variant"}

InitPrices ==
  /\ impl = "none"
  /\ flaky = FALSE
  /\ PageIs(BlankPage)
  /\ EngineInit
  /\ NoBatch
  /\ pc = "price"
  /\ priceRev \in PriceRevs
  /\ priceRate \in VARIANT_PRICE_RATES
  /\ priceText \in PriceTexts
  /\ prices = NotPriced
  /\ navRetries = 0
  /\ navLog = <<>>
  /\ navWaits = <<>>
  /\ call = NoCall

PriceStep(results) ==
  /\ pc = "price"
  /\ prices' \in results
  /\ pc' = "priced"
  /\ UNCHANGED <<pageVars, impl, priceRev, priceRate, priceText, navVars, call, batchVars,
                 retryCount, i, j,
                 masterKey, slaveKey, nMaster, slaveItems, curMaster, mainImage, data, rows,
                 visits, discoveries, faults>>

CalculatePrices ==
  /\ priceRev = "formatters"
  /\ PriceStep(calculatePrices(priceText, priceRate))

CalculatePricesAED ==
  /\ priceRev = "aed"
  /\ PriceStep(calculatePrices_AED(priceText, priceRate))

CalculateVariantPrice ==
  /\ priceRev = "variant"
  /\ PriceStep(calculateVariantPrice(priceText))

NextPrices == CalculatePrices \/ CalculatePricesAED \/ CalculateVariantPrice

\* calculatePrices applied to one price text
SpecPrices == InitPrices /\ [][NextPrices]_vars

Priced == pc = "priced"

(***************************************************************************)
(* gotoMacyWithRetries, src/helpers/gotoWithRetries.js:4-35.  An attempt   *)
(* is page.goto followed by Promise.any over three waitForSelector calls   *)
(* and a ten second timer; the timer always fulfils, so an attempt fails   *)
(* exactly when page.goto rejects.                                         *)
(***************************************************************************)
MaxRetries == 3

\* how page.goto can reject
GotoErrors == {"timeout", "neterror"}
\* what fulfils Promise.any first
Settled == {"brand", "price", "image", "timer"}

\* line 32: the wait after failed attempt i (counted from 0), in milliseconds
Backoff_Fixed(k) == 2000
Backoff(k) == 3000 * (k + 1)

InitGoto ==
  /\ impl = "none"
  /\ flaky = FALSE
  /\ PageIs(BlankPage)
  /\ EngineInit
  /\ NoBatch
  /\ pc = "nav"
  /\ priceRev = "none"
  /\ priceRate = 0
  /\ priceText = <<>>
  /\ prices = NotPriced
  /\ navRetries \in 0..MaxRetries
  /\ navLog = <<>>
  /\ navWaits = <<>>
  /\ call = NoCall

GotoFrame ==
  UNCHANGED <<pageVars, impl, priceVars, navRetries, call, batchVars, retryCount, i, j, masterKey,
              slaveKey, nMaster, slaveItems, curMaster, mainImage, data, rows, visits,
              discoveries, faults>>

\* lines 15-28: page.goto resolves, Promise.any fulfils, the function returns
GotoSucceeds ==
  /\ pc = "nav"
  /\ \E first \in Settled : navLog' = Append(navLog, first)
  /\ pc' = "navreturned"
  /\ UNCHANGED navWaits
  /\ GotoFrame

\* lines 29-33: page.goto rejects on attempt Len(navLog), counted from 0
GotoFails ==
  /\ pc = "nav"
  /\ \E error \in GotoErrors : navLog' = Append(navLog, error)
  /\ IF Len(navLog) = navRetries
       THEN /\ pc' = "navthrown"
            /\ UNCHANGED navWaits
       ELSE /\ navWaits' = Append(navWaits, Backoff(Len(navLog)))
            /\ pc' = "nav"
  /\ GotoFrame

NextGoto == GotoSucceeds \/ GotoFails

\* gotoMacyWithRetries on its own
SpecGoto == InitGoto /\ [][NextGoto]_vars

(***************************************************************************)
(* Helpers called on their own                                             *)
(***************************************************************************)
\* nothing but the helper runs
HelperInit ==
  /\ impl = "none"
  /\ flaky = FALSE
  /\ PageIs(BlankPage)
  /\ EngineInit
  /\ NoBatch
  /\ priceRev = "none"
  /\ priceRate = 0
  /\ priceText = <<>>
  /\ prices = NotPriced
  /\ navRetries = 0
  /\ navLog = <<>>
  /\ navWaits = <<>>

HelperFrame ==
  UNCHANGED <<pageVars, impl, priceVars, navVars, batchVars, retryCount, i, j, masterKey,
              slaveKey, nMaster, slaveItems, curMaster, mainImage, data, rows, visits,
              discoveries, faults>>

(***************************************************************************)
(* The main image element, src/helpers/extractors.js:97-106 and 252-263.   *)
(* An attribute is 0 when it is missing or empty, else the number of the   *)
(* image it points to.                                                     *)
(***************************************************************************)
MaxImages == 2
ImageElements == [src : 0..MaxImages, dataSrc : 0..MaxImages]

\* line 100: el.dataset.src || el.src || ''
imageUrl(el) == IF el.dataSrc # 0 THEN el.dataSrc ELSE IF el.src # 0 THEN el.src ELSE 0

\* lines 254-259: the predicate page.waitForFunction polls
imageChanged(prevMainImage, el) ==
  \/ (el.src # 0 /\ el.src # prevMainImage)
  \/ (el.dataSrc # 0 /\ el.dataSrc # prevMainImage)

\* the element before the click and the one the predicate sees from then on
InitImage ==
  /\ HelperInit
  /\ pc = "imagewait"
  /\ \E b \in ImageElements, a \in ImageElements :
       call = [fn |-> "waitForImageChangeCheck", before |-> b, after |-> a]

\* lines 238 and 252-266: oldMainImage is read, the predicate is polled until
\* it holds or the timeout runs out
WaitForImage ==
  /\ pc = "imagewait"
  /\ LET oldMainImage == imageUrl(call.before)
     IN  call' = call @@ [changed |-> imageChanged(oldMainImage, call.after)]
  /\ pc' = "imagewaited"
  /\ HelperFrame

NextImage == WaitForImage

SpecImage == InitImage /\ [][NextImage]_vars

(***************************************************************************)
(* The variant sections handleCollectVariants walks,                       *)
(* src/helpers/extractors.js:307-363.  A section has a title element or    *)
(* none ("absent"), the element's trimmed text may be empty (""), and it   *)
(* holds a number of enabled items.                                        *)
(***************************************************************************)
MaxSections == 2
SectionTitles == {"absent", "", "Color", "Size"}
Sections == [title : SectionTitles, items : 0..MaxSizes]
SectionLists == UNION {[1..n -> Sections] : n \in 0..MaxSections}

\* lines 354-359: the entry is stored under the title when the title is not
\* empty; an entry stored under the same title before is replaced in place
StoreSection(found, section, variantOrder) ==
  LET entry == [name |-> section.title, items |-> section.items, order |-> variantOrder]
      same == {k \in 1..Len(found) : found[k].name = section.title}
  IN  IF same = {} THEN Append(found, entry)
      ELSE [k \in 1..Len(found) |-> IF k \in same THEN entry ELSE found[k]]

\* lines 315-361, the loop over the sections: one without a title element is
\* left out with `continue` (lines 318-325), one with an empty title is not
\* stored (line 354)
RECURSIVE collectSections(_, _, _)
collectSections(sections, found, variantOrder) ==
  IF sections = <<>> THEN found
  ELSE IF Head(sections).title \in {"absent", ""}
       THEN collectSections(Tail(sections), found, variantOrder)
       ELSE collectSections(Tail(sections),
                            StoreSection(found, Head(sections), variantOrder),
                            variantOrder + 1)

InitSections ==
  /\ HelperInit
  /\ pc = "discover"
  /\ \E sections \in SectionLists :
       call = [fn |-> "handleCollectVariants", sections |-> sections]

CollectSections ==
  /\ pc = "discover"
  /\ call' = call @@ [found |-> collectSections(call.sections, <<>>, 1)]
  /\ pc' = "discovered"
  /\ HelperFrame

NextSections == CollectSections

SpecSections == InitSections /\ [][NextSections]_vars

(***************************************************************************)
(* The chunk loop over allVariantsData, src/helpers/extractors.js:697-760, *)
(* applied to lists longer than chunkSize.                                 *)
(***************************************************************************)
MaxVariants == 120

\* a page with a title and nothing else
TitledPage == [BlankPage EXCEPT !.hasTitle = TRUE]

\* allVariantsData after the loops: n combinations
InitChunks ==
  /\ impl = "none"
  /\ flaky = FALSE
  /\ PageIs(TitledPage)
  /\ EngineInit
  /\ NoBatch
  /\ priceRev = "none"
  /\ priceRate = 0
  /\ priceText = <<>>
  /\ prices = NotPriced
  /\ navRetries = 0
  /\ navLog = <<>>
  /\ navWaits = <<>>
  /\ pc = "chunk"
  /\ \E n \in 1..MaxVariants : call = [fn |-> "chunks", n |-> n]

\* lines 713-758: every entry becomes a row of its chunk
ChunkRows ==
  /\ pc = "chunk"
  /\ rows' = [k \in 1..call.n |->
               ShopifyRow(Snapshot(k, Undefined, selColor, selSize,
                                   extractMainImage(selColor)), k)]
  /\ pc' = "chunked"
  /\ UNCHANGED <<pageVars, impl, priceVars, navVars, call, batchVars, retryCount, i, j,
                 masterKey, slaveKey, nMaster, slaveItems, curMaster, mainImage, data,
                 visits, discoveries, faults>>

NextChunks == ChunkRows

SpecChunks == InitChunks /\ [][NextChunks]_vars

(***************************************************************************)
(* Progress.  extractMacyProductData and gotoMacyWithRetries are single    *)
(* async functions: every await is on a page operation with a timeout or   *)
(* on a timer, so whenever a step of the function is possible it is        *)
(* eventually taken.                                                       *)
(***************************************************************************)
\* The pages of the collect revision, those of the retry revision whose size
\* group does not depend on the colour (its loops run over the lists it read
\* before the first click), and the navigations.
InitTraversal ==
  \/ Init /\ impl = "collect"
  \/ InitRetry /\ ~dependent
  \/ InitGoto

NextCollect ==
  \/ CollectStart
  \/ CollectNoVariants
  \/ CollectMaster
  \/ CollectSlave
  \/ CollectAssemble

\* the collect revision on pages with unreliable clicks
InitCollectFlaky == InitFlaky /\ impl = "collect"
SpecCollectFlaky == InitCollectFlaky /\ [][NextCollect]_vars

NextTraversal == NextCollect \/ NextRetry \/ NextGoto

\* one page visit or one navigation, every step of which is eventually taken
SpecTraversal == InitTraversal /\ [][NextTraversal]_vars /\ WF_vars(NextTraversal)

Returned == pc = "returned"
Thrown == pc = "thrown"

(***************************************************************************)
(* Pages the testable properties speak of                                  *)
(***************************************************************************)
RowPair(r) == <<r.o1, r.o2>>
RowPairs == [k \in 1..Len(rows) |-> RowPair(rows[k])]
PairwiseDistinct(s) == \A a, b \in 1..Len(s) : a # b => s[a] # s[b]

\* every click that went through moved the selection to the clicked item
AllClicksTookHold == \A k \in 1..Len(visits) : visits[k].how # "noeffect"

ZeroGroups == ~HasColors /\ ~HasSizeDimension

\* the labels of the only group of the page, in document order
OnlyGroupLabels ==
  IF HasColors THEN [k \in 1..nColors |-> k] ELSE SortedSeq(Present(shown))
OneGroupAllEnabled ==
  \/ HasColors /\ ~HasSizeDimension /\ disColors = {}
  \/ ~HasColors /\ HasSizeDimension /\ Present(shown) # {} /\ Disabled(shown) = {}

VisitLabels == [k \in 1..Len(visits) |-> visits[k].label]

\* C1: on a page without any variant group, extractMacyProductData returns
\* exactly one row, and that row's Option1 Value and Option2 Value are blank.
C1_NoVariantsOneBlankRow ==
  (Returned /\ ZeroGroups) =>
    /\ Len(rows) = 1
    /\ IsBlank(rows[1].o1)
    /\ IsBlank(rows[1].o2)

C1_Witness ==
  /\ Returned
  /\ ZeroGroups
  /\ Len(rows) = 1
  /\ rows[1].o1 = Undefined

CommonSizes ==
  IF \A c \in DOMAIN seen : seen[c].live = seen[selColor].live
    THEN seen[selColor].live ELSE {}

TwoGroupsUniform ==
  /\ HasColors
  /\ disColors = {}
  /\ ~sawDisabledSize
  /\ CommonSizes # {}

RowsOfColor(c) == {k \in 1..Len(rows) : rows[k].o1 = c}

NoClickFailed == \A k \in 1..Len(visits) : visits[k].how # "throw"
Norm(v) == IF IsBlank(v) THEN Blank ELSE v

\* the (colour, size) pairs of colour c: its live sizes in document order, or
\* the colour alone when it shows no size
LivePairs(c) ==
  IF seen[c].live = {} THEN << <<c, Blank>> >>
  ELSE LET ls == SortedSeq(seen[c].live)
       IN  [k \in 1..Len(ls) |-> <<c, ls[k]>>]

RECURSIVE ExpectedPairs(_)
ExpectedPairs(c) ==
  IF c > nColors THEN <<>>
  ELSE (IF c \in disColors THEN <<>> ELSE LivePairs(c)) \o ExpectedPairs(c + 1)

C6_DisabledContributeNothing ==
  /\ \A k \in 1..Len(visits) : visits[k].disabled => ~visits[k].clicked
  /\ \A k \in 1..Len(rows) :
       /\ HasColors => rows[k].o1 \notin disColors
       /\ (HasColors /\ rows[k].o1 \in DOMAIN seen /\ ~IsBlank(rows[k].o2))
            => rows[k].o2 \in seen[rows[k].o1].live
       /\ (~HasColors /\ ~IsBlank(rows[k].o1)) => rows[k].o1 \in Live(shown)

CarriesProductFields(r) ==
  r.title # Blank /\ r.body # Blank /\ r.tags # Blank /\ r.url # Blank
LacksProductFields(r) ==
  r.title = Blank /\ r.body = Blank /\ r.tags = Blank /\ r.url = Blank

\* C7: of the rows returned for a page that has a title, the first has Title,
\* Body (HTML), Tags and original_product_url non-empty and every other row
\* has all four empty.
C7_OnlyFirstRowCarriesProductFields ==
  (Returned /\ hasTitle /\ Len(rows) > 0) =>
    /\ CarriesProductFields(rows[1])
    /\ \A k \in 2..Len(rows) : LacksProductFields(rows[k])

\* C8: a click that fails both ways does not end extractMacyProductData with
\* an exception: the traversal goes on with the next item and the rows
\* captured so far are returned.
C8_FailureRecoverable ==
  (\E k \in 1..Len(visits) : visits[k].how = "throw") => ~Thrown

RowsKept == Len(rows) <= Len(rows') /\ SubSeq(rows', 1, Len(rows)) = rows
NextInOrder ==
  attempted' = attempted \/ attempted' = Append(attempted, Len(attempted) + 1)

\* C9: in the batch loop the rows already pushed never change, the URLs are
\* started one at a time in list order, and when the loop is over every URL
\* of the list has been started, whatever failed before it.
C9_BatchIsolation ==
  /\ [][RowsKept /\ NextInOrder]_vars
  /\ [](Returned => attempted = [k \in 1..urls |-> k])

C9_Witness ==
  /\ Returned
  /\ urls = 2
  /\ attempted = <<1, 2>>
  /\ successCount = 1
  /\ Len(rows) > 0
  /\ \A k \in 1..Len(rows) : rows[k].url = 2

\* the number the price text states
StatedCost == parseFloat(StripNonNumeric(priceText))
Abs(n) == IF n < 0 THEN 0 - n ELSE n

\* the cent amounts within half a cent of x
NearestCents(x) ==
  IF x.den <= 100 THEN {x.num * (100 \div x.den)}
  ELSE LET q == x.num \div (x.den \div 100)
       IN {c \in {q, q + 1} : 2 * Abs(c * (x.den \div 100) - x.num) <= x.den \div 100}

Dollar129_99 == <<"$", "1", "2", "9", ".", "9", "9">>

\* C10: the variant price is the cost the text states times the configured
\* rate, rounded to two decimals; "$129.99" at rate 1.3 gives "168.99"
C10_VariantPriceRounded ==
  (Priced /\ ~StatedCost.nan) =>
    /\ \E c \in NearestCents(Times(StatedCost, priceRate, 10)) :
         prices.variantPrice = CentsText(c)
    /\ (priceText = Dollar129_99 /\ priceRate = 13) =>
         prices.variantPrice = <<"1", "6", "8", ".", "9", "9">>

\* the revision of src/helpers/formatters.js rounds to the nearest cent
C10_InFormatters == priceRev = "formatters" => C10_VariantPriceRounded

ZeroTexts == {<<"0">>, <<"0", ".", "0", "0">>}

\* C11: a price text that states no number gives a cost per item of zero
C11_UnparseableGivesZeroCost ==
  (Priced /\ StatedCost.nan) => prices.costPerItem \in ZeroTexts

PrimaryGroup == IF HasColors THEN "Color" ELSE "Size"

\* a step in which an item of the primary group was clicked and the click went through
PrimarySelectionStep ==
  /\ Len(visits') = Len(visits) + 1
  /\ LET v == visits'[Len(visits')]
     IN  v.group = PrimaryGroup /\ v.clicked /\ v.how # "throw"

\* every handle is evaluated, clicked and read while no click has been issued
\* since the query that returned it
HandlesFresh ==
  \A k \in 1..Len(visits) :
    visits[k].got = visits[k].at /\ visits[k].read = visits[k].at

\* C12: a discovery query follows each selection in the primary group, and no
\* handle obtained before a click is clicked or read after that click
C12_NoPreClickHandleReused ==
  /\ [][PrimarySelectionStep => discoveries' > discoveries]_vars
  /\ []HandlesFresh

\* the discovery half of C12 on its own
C12_RediscoveryAfterPrimary == [][PrimarySelectionStep => discoveries' > discoveries]_vars

\* C13: whatever the page does, no two rows returned for one handle carry the
\* same (Option1 Value, Option2 Value) pair
C13_NoDuplicatePairs ==
  Returned =>
    \A a, b \in 1..Len(rows) :
      (a # b /\ rows[a].handle = rows[b].handle) => RowPair(rows[a]) # RowPair(rows[b])

NavFailures == {k \in 1..Len(navLog) : navLog[k] \in GotoErrors}

\* C14: gotoMacyWithRetries with N retries makes at most N + 1 attempts, none
\* after a successful one, waits longer before each retry than before the one
\* before it, and throws only when attempt N + 1 has failed
C14_BoundedRetriesWithBackoff ==
  /\ Len(navLog) <= navRetries + 1
  /\ \A k \in 1..Len(navLog) - 1 : k \in NavFailures
  /\ Len(navWaits) = IF pc = "nav" THEN Len(navLog) ELSE Len(navLog) - 1
  /\ \A k \in 1..Len(navWaits) - 1 : navWaits[k] < navWaits[k + 1]
  /\ pc = "navthrown" => (Len(navLog) = navRetries + 1 /\ NavFailures = 1..Len(navLog))
  /\ pc = "navreturned" => Len(navLog) \notin NavFailures

C14_Witness ==
  /\ pc = "navthrown"
  /\ navRetries = 3
  /\ navWaits = <<3000, 6000, 9000>>

\* extractMacyProductData came back to its caller without an exception
ReturnedNormally == pc \in {"returned", "fellthrough"}

\* C15: on a page where no title ever appears extractMacyProductData does not
\* return, with rows or without: the visit ends with an exception
C15_NoTitleAborts == ~hasTitle => ~ReturnedNormally

\* C16: when the variant container is absent from the page the visit does not
\* end with an exception, and it returns the single row of a product without
\* variants
C16_AbsentContainerIsNoVariants ==
  ~containerVisible =>
    /\ ~Thrown
    /\ Returned => (Len(rows) = 1 /\ IsBlank(rows[1].o1) /\ IsBlank(rows[1].o2))

\* C17: when the batch is over every URL of the list has a row in the output
\* or is in the list of failed URLs handed to the sink
C17_EveryUrlAccountedFor ==
  Returned =>
    \A u \in 1..urls :
      \/ \E k \in 1..Len(Saved.productRows) : Saved.productRows[k].url = u
      \/ u \in Saved.failedUrls

\* the function has returned or thrown
Ended == pc \in {"returned", "thrown", "fellthrough", "navreturned", "navthrown"}

C19_SelectedIsNoOpWithPause ==
  \A k \in 1..Len(visits) :
    visits[k].selected => (~visits[k].clicked /\ visits[k].paused)
\* the part of C19 about the click alone
C19_SelectedNotClicked ==
  \A k \in 1..Len(visits) : visits[k].selected => ~visits[k].clicked

\* C20: a click on an item of the primary group that went through and was
\* followed by the wait for another main image does not end the traversal,
\* whether the image changed or the wait timed out, and a traversal that
\* returns has a combination of that item
C20_ImageWaitNonFatal ==
  \A k \in 1..Len(visits) :
    (visits[k].group = PrimaryGroup /\ visits[k].wait # "none") =>
      /\ ~(Thrown /\ k = Len(visits))
      /\ Returned => \E r \in 1..Len(data) : data[r].master = visits[k].label
\* the wait timed out after a click that changed nothing, and the traversal
\* returned a combination of the clicked item
C20_TimedOutStillEmitted ==
  /\ Returned
  /\ \E k \in 1..Len(visits) :
       /\ visits[k].group = PrimaryGroup
       /\ visits[k].wait = "timeout"
       /\ \E r \in 1..Len(data) : data[r].master = visits[k].label

MasterCount ==
  IF impl = "radio" THEN nColors
  ELSE Len(ItemsOfKey(handleCollectVariants(selColor, selSize, shown), masterKey))
\* the outer loop was set up for more items than the primary group holds now
ItemsVanished == pc \notin {"start", "novariants"} /\ nMaster > MasterCount
\* the outer loop stands at an index the re-fetch no longer fills
MissingAtIndex == impl \in {"collect", "radio"} /\ pc = "master" /\ i > MasterCount

\* C22: an item that is gone when its turn comes is skipped and is not
\* fatal: the step at an index the re-fetch no longer fills leaves the loop
\* running, or ends it normally, and keeps the rows gathered for the other
\* items; the function throws only where a click failed or where no variant
\* container is visible
C22_MissingItemSkipped ==
  /\ [](Thrown => (~NoClickFailed \/ ~containerVisible))
  /\ [][MissingAtIndex => /\ pc' \in {"master", "assemble"}
                           /\ rows' = rows
                           /\ data' = data]_vars
\* the function returned the rows of an item it visited although another
\* item had left the page
C22_Witness ==
  /\ Returned /\ ItemsVanished /\ (impl = "radio" => HasColors)
  /\ \E k \in 1..Len(visits) : \E r \in 1..Len(rows) :
       visits[k].group = PrimaryGroup /\ rows[r].o1 = visits[k].label

\* C23: discovery returns every option group of the page, each under a name
\* that is not empty
C23_EveryGroupReturnedNamed ==
  pc = "discovered" =>
    /\ Len(call.found) = Len(call.sections)
    /\ \A k \in 1..Len(call.found) : call.found[k].name # ""

\* C24: a combination is captured only once the page shows the visited item
\* selected: no combination of the collect revision is labelled with a
\* colour while the page has another colour selected, or with a size while
\* the page has another size selected
C24_SnapshotAfterConfirmedSelection ==
  impl = "collect" =>
    \A r \in 1..Len(data) :
      /\ (masterKey = "Color" /\ data[r].master # Undefined) => data[r].master = data[r].sc
      /\ (masterKey = "Size" /\ data[r].master # Undefined) => data[r].master = data[r].ss
      /\ (slaveKey = "Size" /\ data[r].slave # Undefined) => data[r].slave = data[r].ss

\* what another call of the same revision on the same price text can return
SecondCall ==
  CASE priceRev = "formatters" -> calculatePrices(priceText, priceRate)
    [] priceRev = "aed" -> calculatePrices_AED(priceText, priceRate)
    [] priceRev = "variant" -> calculateVariantPrice(priceText)
    [] OTHER -> {prices}

\* C25: two calls of calculatePrices with the same price text return the
\* same compareAtPrice; the floating point arithmetic is the same in both
\* calls, so they are compared where cost and variant price came out alike
C25_CompareAtPriceDetermined ==
  Priced =>
    \A again \in SecondCall :
      (again.costPerItem = prices.costPerItem /\ again.variantPrice = prices.variantPrice)
        => again.compareAtPrice = prices.compareAtPrice

\* C26: every click of the collect revision scrolls the element into view
\* first, then tries the direct click, and evaluates el.click() in the page
\* only when the direct click has failed
C26_ScrollThenEscalate ==
  impl = "collect" =>
    \A k \in 1..Len(visits) :
      visits[k].clicked =>
        LET steps == ClickSteps(visits[k].group, visits[k].how)
        IN  /\ steps[1] = "scrollIntoView"
            /\ Len(steps) >= 2 /\ steps[2] = "click"
            /\ Len(steps) > 2 => (Len(steps) = 3 /\ steps[3] = "evaluate"
                                   /\ visits[k].how \in {"js", "throw"})

\* the URLs that have a row in allProducts
UrlsWithRows == {rows[k].url : k \in 1..Len(rows)}

C28_ThrowsOrReturnsRows ==
  impl \in {"collect", "radio", "retry"} =>
    /\ pc # "fellthrough"
    /\ Returned => Len(rows) > 0

\* the rows that carry handle h and a title
TitledRows(h) == {k \in 1..Len(rows) : rows[k].handle = h /\ ~IsBlank(rows[k].title)}

\* C29: the rows of one visit carry one handle, and every handle among them
\* has exactly one row with a title, also when the combinations fill more
\* than one chunk
C29_OneHandleOneTitledRow ==
  pc = "chunked" =>
    /\ \A a, b \in 1..Len(rows) : rows[a].handle = rows[b].handle
    /\ \A k \in 1..Len(rows) : Cardinality(TitledRows(rows[k].handle)) = 1

\* C30: on a page with a size group and no colour every returned row has the
\* size group's name as Option1 Name, never "Color", and a blank Option2 Name
C30_SizeOnlyOptionNames ==
  (Returned /\ ~HasColors /\ HasSizeDimension /\ Present(shown) # {}) =>
    \A r \in 1..Len(rows) : rows[r].n1 = "Size" /\ rows[r].n2 = ""
====
